---- MODULE Spec2Model ----
(***************************************************************************)
(* Model of the Playwright bridge                                          *)
(* (crates/extensions/tools-browser/src/playwright/bridge_script.js).      *)
(*                                                                         *)
(* The bridge reads JSON lines from stdin.  Every 'line' event starts the  *)
(* async callback of rl.on('line'); the callback runs synchronously up to  *)
(* its first await on a browser-engine promise and is resumed when that    *)
(* promise settles.  readline does not wait for the callback's promise, so *)
(* a new 'line' event may start another callback while earlier ones are    *)
(* suspended.  One step of the model is one run-to-suspension of one       *)
(* callback: OnLine (a line arrives) or EngineReturn (an awaited engine    *)
(* promise settles and the callback continues to its next await or to the  *)
(* console.log of its response).                                           *)
(***************************************************************************)
EXTENDS Integers, Sequences, FiniteSets, TLC

(* ------------------------------ bounds --------------------------------- *)
\* number of input lines read in one run
MaxLines == 3
\* largest handle suffix a request names as its browserId / pageId
MaxArg == 2
\* number of input lines read after the opening of a session (SpecSession)
MaxSessionLines == 2

(* ------------------------------ values --------------------------------- *)
\* `browser_${n}` / `page_${n}` is the pair <<kind, n>>
Handle(kind, n) == <<kind, n>>
\* request without a params object (params is undefined)
NoParams == <<"none", 0>>
NoHandle == <<"-", 0>>

BrowserArgs == {Handle("browser", n) : n \in 1..MaxArg}
PageArgs == {Handle("page", n) : n \in 1..MaxArg}

\* a capability object of the engine: type, the request that created it,
\* and the request that created the browser it lives in
Cap(type, by, of) == [type |-> type, by |-> by, of |-> of]
NoCap == Cap("none", 0, 0)
Chromium == Cap("chromium", 0, 0)

\* JS values that travel in a response
Val(t, h) == [t |-> t, h |-> h]
Null == Val("null", NoHandle)
Undefined == Val("undef", NoHandle)
Str == Val("str", NoHandle)
Obj == Val("obj", NoHandle)
Pong == Val("pong", NoHandle)

\* error.message: a text, followed by the interpolated handle or method
Msg(text, h, m) == [text |-> text, h |-> h, m |-> m]
NoMsg == Msg("-", NoHandle, "-")
EngineFault == Msg("engine fault", NoHandle, "-")
\* destructuring params (or the request) that is undefined / null
TypeErrorMsg == Msg("TypeError", NoHandle, "-")
SyntaxErrorMsg == Msg("SyntaxError", NoHandle, "-")

(* --------------------------- method table ------------------------------ *)
\* methods that resolve a page handle, await one primitive, return null
ActionMethods ==
  {"navigate", "click", "clickSelector", "typeText", "fill", "pressKey",
   "waitForSelector", "goBack", "goForward", "reload", "scroll"}
\* methods that resolve a page handle and return the primitive's value
InspectionMethods ==
  {"screenshot", "getContent", "getUrl", "getTitle", "evaluate", "elementAt"}
PageMethods == ActionMethods \cup InspectionMethods \cup {"getDomTree"}
\* the page methods that await exactly one primitive
PrimitiveMethods == PageMethods \ {"getUrl", "getDomTree"}
\* the cases of the switch in handleRequest
MethodTable ==
  {"ping", "shutdown", "launchBrowser", "connectBrowser", "closeBrowser",
   "newPage", "closePage"} \cup PageMethods
\* a method name that is no case of the switch
UnknownNames == {"bogus"}

\* the input lines: text that JSON.parse rejects, the JSON text null, and
\* request objects {id, method, params}
Line(kind, method, arg) == [kind |-> kind, method |-> method, arg |-> arg]
Lines ==
  {Line("malformed", "-", NoParams), Line("null", "-", NoParams)}
  \cup {Line("request", m, NoParams) :
          m \in {"ping", "shutdown"} \cup UnknownNames}
  \cup {Line("request", m, a) :
          m \in {"launchBrowser", "connectBrowser"},
          a \in {NoHandle, NoParams}}
  \cup {Line("request", m, a) :
          m \in {"closeBrowser", "newPage"}, a \in BrowserArgs \cup {NoParams}}
  \cup {Line("request", m, a) :
          m \in PageMethods \cup {"closePage"}, a \in PageArgs \cup {NoParams}}

VARIABLES
  browsers,     \* Map browserId -> browser capability
  pages,        \* Map pageId -> {page, context, browserId}
  idCounter,    \* let idCounter
  pending,      \* suspended rl.on('line') callbacks, one record each
  out,          \* the lines written to stdout by console.log
  exited,       \* process.exit(0) was called
  nRead,        \* number of 'line' events so far
  open,         \* engine side: capabilities that are open
  engineCalls,  \* engine side: number of capability methods invoked
  closeCalls,   \* engine side: per browser, how often close() was invoked
  document,     \* getDomTree: the elements of the page, in document order
  visited,      \* getDomTree: elements of the selection the loop has passed
  nodeId,       \* getDomTree: let nodeId
  results,      \* getDomTree: const results
  snapshot,     \* getDomTree: the object it returns
  ws,           \* app.js: readyState of the socket in let ws
  reconnectAttempts, \* app.js: let reconnectAttempts
  timers,       \* app.js: pending setTimeout(connect, reconnectDelay)
  inputValue,   \* app.js: input.value
  inputDisabled, \* app.js: input.disabled
  messages,     \* app.js: the children of the messages element
  sent          \* app.js: the frames passed to ws.send

bridgeVars == <<browsers, pages, idCounter, pending, out, exited, nRead, open,
                engineCalls, closeCalls>>
detectVars == <<document, visited, nodeId, results, snapshot>>
clientVars == <<ws, reconnectAttempts, timers, inputValue, inputDisabled,
                messages, sent>>
vars == <<bridgeVars, detectVars, clientVars>>

\* no detection pass is running
NoSnapshot == [roots |-> <<>>, nodes |-> <<>>, done |-> FALSE]
NoDetection ==
  /\ document = <<>>
  /\ visited = 0
  /\ nodeId = 0
  /\ results = <<>>
  /\ snapshot = NoSnapshot

\* the web channel client is not loaded
NoClient ==
  /\ ws = "null"
  /\ reconnectAttempts = 0
  /\ timers = 0
  /\ inputValue = ""
  /\ inputDisabled = FALSE
  /\ messages = <<>>
  /\ sent = <<>>

(* ------------------------------ helpers -------------------------------- *)
\* a suspended callback: the request, the await it is suspended at, the
\* capability whose call it awaits, the context held in a local (newPage,
\* closePage) and the position of the shutdown loop in browsers.values()
Callback(id, method, arg, pc, cap, ctx, cur) ==
  [id |-> id, method |-> method, arg |-> arg, pc |-> pc, cap |-> cap,
   ctx |-> ctx, cur |-> cur]

At(p, pc, cap, ctx, cur) ==
  Callback(p.id, p.method, p.arg, pc, cap, ctx, cur)

\* how an awaited engine promise settles
Outcome(ok, val) == [ok |-> ok, val |-> val]
NoOutcome == Outcome(TRUE, Undefined)

\* a delete that removes nothing
MapDeleteNothing(map, key) == map
\* Map.delete
MapDelete(map, key) == [k \in (DOMAIN map) \ {key} |-> map[k]]
\* a set that stores nothing
MapSetNothing(map, key, value) == map
\* Map.set of a key that is not present
MapSet(map, key, value) == map @@ (key :> value)

\* the return values of handleRequest
Success(id, result) ==
  [id |-> id, tag |-> "result", result |-> result, message |-> NoMsg]
Failure(id, message) ==
  [id |-> id, tag |-> "error", result |-> Undefined, message |-> message]

\* JSON.stringify of a response object: a property whose value is
\* undefined is left out of the text
Stringify(resp) ==
  [id |-> resp.id,
   keys |-> {"id"}
            \cup (IF resp.tag = "result" /\ resp.result # Undefined
                  THEN {"result"} ELSE {})
            \cup (IF resp.tag = "error" THEN {"error"} ELSE {}),
   result |-> IF resp.tag = "result" THEN resp.result ELSE Undefined,
   message |-> resp.message,
   code |-> IF resp.tag = "error" THEN -1 ELSE 0]

\* the catch block of rl.on('line') answering under the position of the line
SentinelResponseByPosition(message) == Failure(nRead + 1, message)

\* the response of the catch block of rl.on('line')
SentinelResponse(message) == Failure(0, message)

\* the default case without the interpolated method
UnknownMethodNoName(method) == Msg("Unknown method: ", NoHandle, "-")
\* the two lookups with each other's message
PageNotFoundAsBrowser(pageId) == Msg("Browser not found: ", pageId, "-")
BrowserNotFoundAsPage(browserId) == Msg("Page not found: ", browserId, "-")

UnknownMethod(method) == Msg("Unknown method: ", NoHandle, method)
PageNotFound(pageId) == Msg("Page not found: ", pageId, "-")
BrowserNotFound(browserId) == Msg("Browser not found: ", browserId, "-")

\* idCounter without the increment
NextIdStuck == idCounter

\* idCounter++
NextId == idCounter + 1

\* the capabilities that close together with capability c
ClosedWith(c) ==
  IF c.type = "browser" THEN {d \in open : d.of = c.by}
  ELSE IF c.type = "context" THEN {d \in open : d.by = c.by}
  ELSE {c}

\* the value a primitive resolves to
PrimitiveValues(method) ==
  IF method = "evaluate" THEN {Obj, Null, Undefined}
  ELSE IF method = "elementAt" THEN {Obj, Null}
  ELSE IF method \in {"screenshot", "getContent", "getTitle"} THEN {Str}
  ELSE {Undefined}

\* how the engine may settle the call callback p awaits: a call on a closed
\* capability is rejected, close calls and launch/attach may go either way
Outcomes(p) ==
  IF p.pc \in {"launch", "connect", "browserClose", "pageClose",
               "contextClose", "shutdownClose"}
  THEN {Outcome(TRUE, Undefined), Outcome(FALSE, Undefined)}
  ELSE {Outcome(FALSE, Undefined)}
       \cup (IF p.cap \in open
             THEN {Outcome(TRUE, v) : v \in PrimitiveValues(p.method)}
             ELSE {})

(* ---------------- handleRequest: leaving the function ------------------ *)
\* return { id, result } followed by console.log in the callback
Return(p, rest, result) ==
  /\ out' = Append(out, Stringify(Success(p.id, result)))
  /\ pending' = rest

\* a catch block reached after the counter was advanced
ThrowCounted(p, rest, message) ==
  /\ out' = Append(out, Stringify(Failure(p.id, message)))
  /\ pending' = rest
  /\ idCounter' = idCounter + 1
  /\ UNCHANGED <<browsers, pages, exited, open, engineCalls, closeCalls>>

\* the catch block of handleRequest, followed by console.log
Throw(p, rest, message) ==
  /\ out' = Append(out, Stringify(Failure(p.id, message)))
  /\ pending' = rest
  /\ UNCHANGED <<browsers, pages, idCounter, exited, open, engineCalls, closeCalls>>

\* browser.close() is invoked on browser capability c
CloseInvoked(c) ==
  IF c.by \in DOMAIN closeCalls
  THEN [closeCalls EXCEPT ![c.by] = @ + 1]
  ELSE closeCalls @@ (c.by :> 1)

\* the callback invokes n capability methods, the last of them the one named
\* by pc on capability cap, and suspends at the await of its promise
Await(p, rest, pc, cap, ctx, cur, n) ==
  /\ pending' = rest \cup {At(p, pc, cap, ctx, cur)}
  /\ engineCalls' = engineCalls + n
  /\ closeCalls' = IF pc \in {"browserClose", "shutdownClose"}
                   THEN CloseInvoked(cap) ELSE closeCalls
  /\ UNCHANGED <<out, exited>>

(* ---------------------------- operations ------------------------------- *)
launchBrowser(p, rest, o) ==
  IF p.pc = "start"
  THEN IF p.arg = NoParams
       THEN Throw(p, rest, TypeErrorMsg)
       ELSE /\ Await(p, rest, "launch", Chromium, NoCap, 0, 1)
            /\ UNCHANGED <<browsers, pages, idCounter, open>>
  ELSE IF ~o.ok
       THEN Throw(p, rest, EngineFault)
       ELSE /\ browsers' = MapSet(browsers, Handle("browser", idCounter),
                                  Cap("browser", p.id, p.id))
            /\ idCounter' = NextId
            /\ open' = open \cup {Cap("browser", p.id, p.id)}
            /\ Return(p, rest, Val("handle", Handle("browser", idCounter)))
            /\ UNCHANGED <<pages, exited, engineCalls, closeCalls>>

connectBrowser(p, rest, o) ==
  IF p.pc = "start"
  THEN IF p.arg = NoParams
       THEN Throw(p, rest, TypeErrorMsg)
       ELSE /\ Await(p, rest, "connect", Chromium, NoCap, 0, 1)
            /\ UNCHANGED <<browsers, pages, idCounter, open>>
  ELSE IF ~o.ok
       THEN Throw(p, rest, EngineFault)
       ELSE /\ browsers' = MapSet(browsers, Handle("browser", idCounter),
                                  Cap("browser", p.id, p.id))
            /\ idCounter' = NextId
            /\ open' = open \cup {Cap("browser", p.id, p.id)}
            /\ Return(p, rest, Val("handle", Handle("browser", idCounter)))
            /\ UNCHANGED <<pages, exited, engineCalls, closeCalls>>

\* closeBrowser that leaves the handle registered
closeBrowserKeeps(p, rest, o) ==
  IF p.pc = "start"
  THEN IF p.arg = NoParams
       THEN Throw(p, rest, TypeErrorMsg)
       ELSE IF p.arg \in DOMAIN browsers
       THEN /\ Await(p, rest, "browserClose", browsers[p.arg], NoCap, 0, 1)
            /\ UNCHANGED <<browsers, pages, idCounter, open>>
       ELSE /\ Return(p, rest, Null)
            /\ UNCHANGED <<browsers, pages, idCounter, exited, open,
                           engineCalls, closeCalls>>
  ELSE IF ~o.ok
       THEN Throw(p, rest, EngineFault)
       ELSE /\ open' = open \ ClosedWith(p.cap)
            /\ Return(p, rest, Null)
            /\ UNCHANGED <<browsers, pages, idCounter, exited, engineCalls,
                           closeCalls>>

\* closeBrowser that also removes the pages of the browser
closeBrowserCascade(p, rest, o) ==
  IF p.pc = "start"
  THEN IF p.arg = NoParams
       THEN Throw(p, rest, TypeErrorMsg)
       ELSE IF p.arg \in DOMAIN browsers
       THEN /\ Await(p, rest, "browserClose", browsers[p.arg], NoCap, 0, 1)
            /\ UNCHANGED <<browsers, pages, idCounter, open>>
       ELSE /\ Return(p, rest, Null)
            /\ UNCHANGED <<browsers, pages, idCounter, exited, open,
                           engineCalls, closeCalls>>
  ELSE IF ~o.ok
       THEN Throw(p, rest, EngineFault)
       ELSE /\ open' = open \ ClosedWith(p.cap)
            /\ browsers' = MapDelete(browsers, p.arg)
            /\ pages' = [h \in {g \in DOMAIN pages :
                                  pages[g].browserId # p.arg} |-> pages[h]]
            /\ Return(p, rest, Null)
            /\ UNCHANGED <<idCounter, exited, engineCalls, closeCalls>>

closeBrowser(p, rest, o) ==
  IF p.pc = "start"
  THEN IF p.arg = NoParams
       THEN Throw(p, rest, TypeErrorMsg)
       ELSE IF p.arg \in DOMAIN browsers
       THEN /\ Await(p, rest, "browserClose", browsers[p.arg], NoCap, 0, 1)
            /\ UNCHANGED <<browsers, pages, idCounter, open>>
       ELSE /\ Return(p, rest, Null)
            /\ UNCHANGED <<browsers, pages, idCounter, exited, open,
                           engineCalls, closeCalls>>
  ELSE IF ~o.ok
       THEN Throw(p, rest, EngineFault)
       ELSE /\ open' = open \ ClosedWith(p.cap)
            /\ browsers' = MapDelete(browsers, p.arg)
            /\ Return(p, rest, Null)
            /\ UNCHANGED <<pages, idCounter, exited, engineCalls, closeCalls>>

\* newPage that keeps one context per browser and opens every page in it
newPageSharedContext(p, rest, o) ==
  CASE p.pc = "start" ->
         IF p.arg = NoParams
         THEN Throw(p, rest, TypeErrorMsg)
         ELSE IF p.arg \notin DOMAIN browsers
         THEN Throw(p, rest, BrowserNotFound(p.arg))
         ELSE /\ Await(p, rest, "newContext", browsers[p.arg], NoCap, 0, 1)
              /\ UNCHANGED <<browsers, pages, idCounter, open>>
    [] p.pc = "newContext" ->
         IF ~o.ok
         THEN Throw(p, rest, EngineFault)
         ELSE /\ open' = open \cup {Cap("context", p.cap.by, p.cap.by)}
              /\ Await(p, rest, "contextNewPage",
                       Cap("context", p.cap.by, p.cap.by),
                       Cap("context", p.cap.by, p.cap.by), 0, 1)
              /\ UNCHANGED <<browsers, pages, idCounter>>
    [] p.pc = "contextNewPage" ->
         IF ~o.ok
         THEN Throw(p, rest, EngineFault)
         ELSE /\ open' = open \cup {Cap("page", p.id, p.cap.of)}
              /\ pages' = MapSet(pages, Handle("page", idCounter),
                                 [page |-> Cap("page", p.id, p.cap.of),
                                  context |-> p.ctx,
                                  browserId |-> p.arg])
              /\ idCounter' = NextId
              /\ Return(p, rest, Val("handle", Handle("page", idCounter)))
              /\ UNCHANGED <<browsers, exited, engineCalls, closeCalls>>

\* newPage that registers the entry although context.newPage() faulted
newPageRegistersFailed(p, rest, o) ==
  CASE p.pc = "start" ->
         IF p.arg = NoParams
         THEN Throw(p, rest, TypeErrorMsg)
         ELSE IF p.arg \notin DOMAIN browsers
         THEN Throw(p, rest, BrowserNotFound(p.arg))
         ELSE /\ Await(p, rest, "newContext", browsers[p.arg], NoCap, 0, 1)
              /\ UNCHANGED <<browsers, pages, idCounter, open>>
    [] p.pc = "newContext" ->
         IF ~o.ok
         THEN Throw(p, rest, EngineFault)
         ELSE /\ open' = open \cup {Cap("context", p.id, p.cap.by)}
              /\ Await(p, rest, "contextNewPage",
                       Cap("context", p.id, p.cap.by),
                       Cap("context", p.id, p.cap.by), 0, 1)
              /\ UNCHANGED <<browsers, pages, idCounter>>
    [] p.pc = "contextNewPage" ->
         IF ~o.ok
         THEN /\ out' = Append(out, Stringify(Failure(p.id, EngineFault)))
              /\ pending' = rest
              /\ pages' = MapSet(pages, Handle("page", idCounter),
                                 [page |-> NoCap, context |-> p.ctx,
                                  browserId |-> p.arg])
              /\ idCounter' = NextId
              /\ UNCHANGED <<browsers, exited, open, engineCalls,
                             closeCalls>>
         ELSE /\ open' = open \cup {Cap("page", p.id, p.cap.of)}
              /\ pages' = MapSet(pages, Handle("page", idCounter),
                                 [page |-> Cap("page", p.id, p.cap.of),
                                  context |-> p.ctx,
                                  browserId |-> p.arg])
              /\ idCounter' = NextId
              /\ Return(p, rest, Val("handle", Handle("page", idCounter)))
              /\ UNCHANGED <<browsers, exited, engineCalls, closeCalls>>

newPage(p, rest, o) ==
  CASE p.pc = "start" ->
         IF p.arg = NoParams
         THEN Throw(p, rest, TypeErrorMsg)
         ELSE IF p.arg \notin DOMAIN browsers
         THEN Throw(p, rest, BrowserNotFound(p.arg))
         ELSE /\ Await(p, rest, "newContext", browsers[p.arg], NoCap, 0, 1)
              /\ UNCHANGED <<browsers, pages, idCounter, open>>
    [] p.pc = "newContext" ->
         IF ~o.ok
         THEN Throw(p, rest, EngineFault)
         ELSE /\ open' = open \cup {Cap("context", p.id, p.cap.by)}
              /\ Await(p, rest, "contextNewPage",
                       Cap("context", p.id, p.cap.by),
                       Cap("context", p.id, p.cap.by), 0, 1)
              /\ UNCHANGED <<browsers, pages, idCounter>>
    [] p.pc = "contextNewPage" ->
         IF ~o.ok
         THEN Throw(p, rest, EngineFault)
         ELSE /\ open' = open \cup {Cap("page", p.id, p.cap.of)}
              /\ pages' = MapSet(pages, Handle("page", idCounter),
                                 [page |-> Cap("page", p.id, p.cap.of),
                                  context |-> p.ctx,
                                  browserId |-> p.arg])
              /\ idCounter' = NextId
              /\ Return(p, rest, Val("handle", Handle("page", idCounter)))
              /\ UNCHANGED <<browsers, exited, engineCalls, closeCalls>>

\* page methods that swallow the fault of the primitive
pagePrimitiveSwallow(p, rest, o) ==
  IF p.pc = "start"
  THEN IF p.arg = NoParams
       THEN Throw(p, rest, TypeErrorMsg)
       ELSE IF p.arg \notin DOMAIN pages
       THEN Throw(p, rest, PageNotFound(p.arg))
       ELSE /\ Await(p, rest, "primitive", pages[p.arg].page, NoCap, 0, 1)
            /\ UNCHANGED <<browsers, pages, idCounter, open>>
  ELSE /\ Return(p, rest,
                 IF p.method \in ActionMethods \/ ~o.ok THEN Null ELSE o.val)
       /\ UNCHANGED <<browsers, pages, idCounter, exited, open,
                      engineCalls, closeCalls>>

\* page methods that all return what the primitive resolved to
pagePrimitiveRaw(p, rest, o) ==
  IF p.pc = "start"
  THEN IF p.arg = NoParams
       THEN Throw(p, rest, TypeErrorMsg)
       ELSE IF p.arg \notin DOMAIN pages
       THEN Throw(p, rest, PageNotFound(p.arg))
       ELSE /\ Await(p, rest, "primitive", pages[p.arg].page, NoCap, 0, 1)
            /\ UNCHANGED <<browsers, pages, idCounter, open>>
  ELSE IF ~o.ok
       THEN Throw(p, rest, EngineFault)
       ELSE /\ Return(p, rest, o.val)
            /\ UNCHANGED <<browsers, pages, idCounter, exited, open,
                           engineCalls, closeCalls>>

\* navigate, click, clickSelector, typeText, fill, pressKey, screenshot,
\* getContent, getTitle, evaluate, waitForSelector, goBack, goForward,
\* reload, scroll, elementAt: resolve the page, await one primitive
pagePrimitive(p, rest, o) ==
  IF p.pc = "start"
  THEN IF p.arg = NoParams
       THEN Throw(p, rest, TypeErrorMsg)
       ELSE IF p.arg \notin DOMAIN pages
       THEN Throw(p, rest, PageNotFound(p.arg))
       ELSE /\ Await(p, rest, "primitive", pages[p.arg].page, NoCap, 0, 1)
            /\ UNCHANGED <<browsers, pages, idCounter, open>>
  ELSE IF ~o.ok
       THEN Throw(p, rest, EngineFault)
       ELSE /\ Return(p, rest,
                      IF p.method \in ActionMethods THEN Null ELSE o.val)
            /\ UNCHANGED <<browsers, pages, idCounter, exited, open,
                           engineCalls, closeCalls>>

\* page.url() is synchronous and reports the last known URL
getUrl(p, rest, o) ==
  IF p.arg = NoParams
  THEN Throw(p, rest, TypeErrorMsg)
  ELSE IF p.arg \notin DOMAIN pages
  THEN Throw(p, rest, PageNotFound(p.arg))
  ELSE /\ Return(p, rest, Str)
       /\ engineCalls' = engineCalls + 1
       /\ UNCHANGED <<browsers, pages, idCounter, exited, open, closeCalls>>

getDomTree(p, rest, o) ==
  CASE p.pc = "start" ->
         IF p.arg = NoParams
         THEN Throw(p, rest, TypeErrorMsg)
         ELSE IF p.arg \notin DOMAIN pages
         THEN Throw(p, rest, PageNotFound(p.arg))
         ELSE \* page.viewportSize(), page.evaluate(scroll info)
              /\ Await(p, rest, "scrollInfo", pages[p.arg].page, NoCap, 0, 2)
              /\ UNCHANGED <<browsers, pages, idCounter, open>>
    [] p.pc = "scrollInfo" ->
         IF ~o.ok
         THEN Throw(p, rest, EngineFault)
         ELSE \* page.evaluate(element detection)
              /\ Await(p, rest, "nodes", p.cap, NoCap, 0, 1)
              /\ UNCHANGED <<browsers, pages, idCounter, open>>
    [] p.pc = "nodes" ->
         IF ~o.ok
         THEN Throw(p, rest, EngineFault)
         ELSE \* page.url(), page.title()
              /\ Await(p, rest, "title", p.cap, NoCap, 0, 2)
              /\ UNCHANGED <<browsers, pages, idCounter, open>>
    [] p.pc = "title" ->
         IF ~o.ok
         THEN Throw(p, rest, EngineFault)
         ELSE /\ Return(p, rest, Obj)
              /\ UNCHANGED <<browsers, pages, idCounter, exited, open,
                             engineCalls, closeCalls>>

\* closePage that rejects a missing handle the way the actions do
closePageStrict(p, rest, o) ==
  CASE p.pc = "start" ->
         IF p.arg = NoParams
         THEN Throw(p, rest, TypeErrorMsg)
         ELSE IF p.arg \notin DOMAIN pages
         THEN Throw(p, rest, PageNotFound(p.arg))
         ELSE /\ Await(p, rest, "pageClose", pages[p.arg].page,
                       pages[p.arg].context, 0, 1)
              /\ UNCHANGED <<browsers, pages, idCounter, open>>
    [] p.pc = "pageClose" ->
         IF ~o.ok
         THEN Throw(p, rest, EngineFault)
         ELSE /\ open' = open \ ClosedWith(p.cap)
              /\ Await(p, rest, "contextClose", p.ctx, p.ctx, 0, 1)
              /\ UNCHANGED <<browsers, pages, idCounter>>
    [] p.pc = "contextClose" ->
         IF ~o.ok
         THEN Throw(p, rest, EngineFault)
         ELSE /\ open' = open \ ClosedWith(p.cap)
              /\ pages' = MapDelete(pages, p.arg)
              /\ Return(p, rest, Null)
              /\ UNCHANGED <<browsers, idCounter, exited, engineCalls, closeCalls>>

\* closePage that drops the entry when page.close() faults
closePageForgets(p, rest, o) ==
  CASE p.pc = "start" ->
         IF p.arg = NoParams
         THEN Throw(p, rest, TypeErrorMsg)
         ELSE IF p.arg \in DOMAIN pages
         THEN /\ Await(p, rest, "pageClose", pages[p.arg].page,
                       pages[p.arg].context, 0, 1)
              /\ UNCHANGED <<browsers, pages, idCounter, open>>
         ELSE /\ Return(p, rest, Null)
              /\ UNCHANGED <<browsers, pages, idCounter, exited, open,
                             engineCalls, closeCalls>>
    [] p.pc = "pageClose" ->
         IF ~o.ok
         THEN /\ out' = Append(out, Stringify(Failure(p.id, EngineFault)))
              /\ pending' = rest
              /\ pages' = MapDelete(pages, p.arg)
              /\ UNCHANGED <<browsers, idCounter, exited, open, engineCalls,
                             closeCalls>>
         ELSE /\ open' = open \ ClosedWith(p.cap)
              /\ Await(p, rest, "contextClose", p.ctx, p.ctx, 0, 1)
              /\ UNCHANGED <<browsers, pages, idCounter>>
    [] p.pc = "contextClose" ->
         IF ~o.ok
         THEN Throw(p, rest, EngineFault)
         ELSE /\ open' = open \ ClosedWith(p.cap)
              /\ pages' = MapDelete(pages, p.arg)
              /\ Return(p, rest, Null)
              /\ UNCHANGED <<browsers, idCounter, exited, engineCalls, closeCalls>>

closePage(p, rest, o) ==
  CASE p.pc = "start" ->
         IF p.arg = NoParams
         THEN Throw(p, rest, TypeErrorMsg)
         ELSE IF p.arg \in DOMAIN pages
         THEN /\ Await(p, rest, "pageClose", pages[p.arg].page,
                       pages[p.arg].context, 0, 1)
              /\ UNCHANGED <<browsers, pages, idCounter, open>>
         ELSE /\ Return(p, rest, Null)
              /\ UNCHANGED <<browsers, pages, idCounter, exited, open,
                             engineCalls, closeCalls>>
    [] p.pc = "pageClose" ->
         IF ~o.ok
         THEN Throw(p, rest, EngineFault)
         ELSE /\ open' = open \ ClosedWith(p.cap)
              /\ Await(p, rest, "contextClose", p.ctx, p.ctx, 0, 1)
              /\ UNCHANGED <<browsers, pages, idCounter>>
    [] p.pc = "contextClose" ->
         IF ~o.ok
         THEN Throw(p, rest, EngineFault)
         ELSE /\ open' = open \ ClosedWith(p.cap)
              /\ pages' = MapDelete(pages, p.arg)
              /\ Return(p, rest, Null)
              /\ UNCHANGED <<browsers, idCounter, exited, engineCalls, closeCalls>>

\* the browsers that browsers.values() still has to yield after position
\* cur: a Map iterates in insertion order, which is the order of the suffix
Remaining(cur) == {h \in DOMAIN browsers : h[2] > cur}
First(hs) == CHOOSE h \in hs : \A g \in hs : h[2] <= g[2]

\* shutdown without the .catch(() => {}): a failing close leaves the loop
shutdownThrows(p, rest, o) ==
  IF p.pc = "shutdownClose" /\ ~o.ok
  THEN Throw(p, rest, EngineFault)
  ELSE /\ open' = IF p.pc = "shutdownClose"
                  THEN open \ ClosedWith(p.cap) ELSE open
       /\ IF Remaining(p.cur) = {}
          THEN /\ exited' = TRUE
               /\ pending' = rest
               /\ UNCHANGED <<out, engineCalls, closeCalls>>
          ELSE Await(p, rest, "shutdownClose",
                     browsers[First(Remaining(p.cur))], NoCap,
                     First(Remaining(p.cur))[2], 1)
       /\ UNCHANGED <<browsers, pages, idCounter>>

\* case 'shutdown': close every browser, swallow failures, process.exit(0)
shutdown(p, rest, o) ==
  /\ open' = IF p.pc = "shutdownClose" /\ o.ok
             THEN open \ ClosedWith(p.cap) ELSE open
  /\ IF Remaining(p.cur) = {}
     THEN /\ exited' = TRUE
          /\ pending' = rest
          /\ UNCHANGED <<out, engineCalls, closeCalls>>
     ELSE Await(p, rest, "shutdownClose",
                browsers[First(Remaining(p.cur))], NoCap,
                First(Remaining(p.cur))[2], 1)
  /\ UNCHANGED <<browsers, pages, idCounter>>

\* async function handleRequest: the switch over method, run from the
\* position p.pc to the next await or to the response
handleRequest(p, rest, o) ==
  CASE p.method \in PrimitiveMethods -> pagePrimitive(p, rest, o)
    [] p.method = "getUrl" -> getUrl(p, rest, o)
    [] p.method = "getDomTree" -> getDomTree(p, rest, o)
    [] p.method = "ping" ->
         /\ Return(p, rest, Pong)
         /\ UNCHANGED <<browsers, pages, idCounter, exited, open,
                        engineCalls, closeCalls>>
    [] p.method = "shutdown" -> shutdown(p, rest, o)
    [] p.method = "launchBrowser" -> launchBrowser(p, rest, o)
    [] p.method = "connectBrowser" -> connectBrowser(p, rest, o)
    [] p.method = "closeBrowser" -> closeBrowser(p, rest, o)
    [] p.method = "newPage" -> newPage(p, rest, o)
    [] p.method = "closePage" -> closePage(p, rest, o)
    [] p.method \notin MethodTable ->
         Throw(p, rest, UnknownMethod(p.method))

(* ------------------------------ actions -------------------------------- *)
InitBridge ==
  /\ browsers = [h \in {} |-> NoCap]
  /\ pages = [h \in {} |-> [page |-> NoCap, context |-> NoCap,
                            browserId |-> NoHandle]]
  /\ idCounter = 1
  /\ pending = {}
  /\ out = <<>>
  /\ exited = FALSE
  /\ nRead = 0
  /\ open = {}
  /\ engineCalls = 0
  /\ closeCalls = [b \in {} |-> 0]

Init == InitBridge /\ NoDetection /\ NoClient

\* rl.on('line', async (line) => ...): the callback parses the line and runs
\* handleRequest up to its first await.  The request's id is the position
\* of its line in the input.
LineCallback(line) ==
  /\ ~exited
  /\ nRead' = nRead + 1
  /\ IF line.kind = "malformed"
     THEN \* JSON.parse throws
          /\ out' = Append(out, Stringify(SentinelResponse(SyntaxErrorMsg)))
          /\ UNCHANGED <<browsers, pages, idCounter, pending, exited, open,
                         engineCalls, closeCalls>>
     ELSE IF line.kind = "null"
     THEN \* handleRequest(null) rejects: destructuring null
          /\ out' = Append(out, Stringify(SentinelResponse(TypeErrorMsg)))
          /\ UNCHANGED <<browsers, pages, idCounter, pending, exited, open,
                         engineCalls, closeCalls>>
     ELSE handleRequest(
            Callback(nRead + 1, line.method, line.arg, "start", NoCap,
                     NoCap, 0),
            pending, NoOutcome)

\* the line arrives as one of the first MaxLines lines of the input
Receive(line) ==
  /\ nRead < MaxLines
  /\ LineCallback(line)

OnLine ==
  /\ \E line \in Lines : Receive(line)
  /\ UNCHANGED <<detectVars, clientVars>>

\* the engine promise a suspended callback awaits settles and the callback
\* continues
EngineReturn ==
  /\ ~exited
  /\ \E p \in pending : \E o \in Outcomes(p) :
       /\ handleRequest(p, pending \ {p}, o)
       /\ UNCHANGED nRead
  /\ UNCHANGED <<detectVars, clientVars>>

Next == OnLine \/ EngineReturn

Spec == Init /\ [][Next]_vars

(* ------------------------------ session -------------------------------- *)
\* The bridge after the two requests that open a session, launchBrowser
\* (id 1) and newPage on browser_1 (id 2), were served without fault.
SessionBrowser == Cap("browser", 1, 1)
SessionContext == Cap("context", 2, 1)
SessionPage == Cap("page", 2, 1)
SessionOut ==
  <<Stringify(Success(1, Val("handle", Handle("browser", 1)))),
    Stringify(Success(2, Val("handle", Handle("page", 2))))>>

InitSession ==
  /\ browsers = (Handle("browser", 1) :> SessionBrowser)
  /\ pages = (Handle("page", 2) :>
               [page |-> SessionPage, context |-> SessionContext,
                browserId |-> Handle("browser", 1)])
  /\ idCounter = Len(SessionOut) + 1
  /\ pending = {}
  /\ out = SessionOut
  /\ exited = FALSE
  /\ nRead = Len(SessionOut)
  /\ open = {SessionBrowser, SessionContext, SessionPage}
  /\ engineCalls = Len(SessionOut) + 1
  /\ closeCalls = [b \in {} |-> 0]
  /\ NoDetection
  /\ NoClient

\* the line arrives as one of the MaxSessionLines lines after the opening
ReceiveInSession(line) ==
  /\ nRead < Len(SessionOut) + MaxSessionLines
  /\ LineCallback(line)

OnSessionLine ==
  /\ \E line \in Lines : ReceiveInSession(line)
  /\ UNCHANGED <<detectVars, clientVars>>

NextSession == OnSessionLine \/ EngineReturn

SpecSession == InitSession /\ [][NextSession]_vars

\* the opening of the session is a state of Spec
SessionOpened ==
  /\ browsers = (Handle("browser", 1) :> SessionBrowser)
  /\ DOMAIN pages = {Handle("page", 2)}
  /\ pages[Handle("page", 2)] =
       [page |-> SessionPage, context |-> SessionContext,
        browserId |-> Handle("browser", 1)]
  /\ idCounter = Len(SessionOut) + 1
  /\ pending = {}
  /\ out = SessionOut
  /\ ~exited
  /\ nRead = Len(SessionOut)
  /\ open = {SessionBrowser, SessionContext, SessionPage}
  /\ engineCalls = Len(SessionOut) + 1
  /\ DOMAIN closeCalls = {}

(* --------------------------- element detection ------------------------- *)
\* The function getDomTree evaluates in the page (bridge_script.js 343-551)
\* and the snapshot it assembles from the result (553-572).  A page is the
\* sequence of its elements in document order; an element is a record of
\* what the function reads from it.  The viewport, timestamp, url and title
\* members of the snapshot, and the attributes, text_content, xpath,
\* bounding_box and computed_styles members of a node, are left out.

\* largest number of elements of a page
MaxElems == 3

\* getAttribute() of an attribute the element does not have
NullAttr == "(null)"

\* --- JS numbers: IEEE-754 doubles, as multiples of 2^-56 in two limbs ----
\* <<hi, lo>> is the double (hi * 2^28 + lo) * 2^-56; every double in
\* [2^-4, 2) is such a multiple, and so is 0.
Limb == 2^28
Zero == <<0, 0>>
\* 1.0
One == <<Limb, 0>>
\* the literal 0.1 = 0x1.999999999999ap-4
W010 == <<26843545, 161061274>>
\* the literal 0.15 = 0x1.3333333333333p-3
W015 == <<40265318, 107374182>>
\* the literal 0.2 = 0x1.999999999999ap-3
W020 == <<53687091, 53687092>>
\* the literal 0.3 = 0x1.3333333333333p-2
W030 == <<80530636, 214748364>>

\* the spacing of the doubles around a value with high limb hi, in units of
\* 2^-56 (53 significant bits)
FloatUlp(hi) ==
  IF hi >= 2^28 THEN 16
  ELSE IF hi >= 2^27 THEN 8
  ELSE IF hi >= 2^26 THEN 4
  ELSE IF hi >= 2^25 THEN 2
  ELSE 1

\* a + b of JS: the exact sum, rounded to the nearest double, ties to even
FloatAdd(a, b) ==
  LET lo0 == a[2] + b[2]
      hi0 == a[1] + b[1] + (lo0 \div Limb)
      lo1 == lo0 % Limb
      k == FloatUlp(hi0)
      r == lo1 % k
      q == lo1 - r
      up == (2 * r > k) \/ (2 * r = k /\ (q \div k) % 2 = 1)
      lo2 == IF up THEN q + k ELSE q
  IN  <<hi0 + (lo2 \div Limb), lo2 % Limb>>

\* a < b of JS
FloatLess(a, b) == a[1] < b[1] \/ (a[1] = b[1] /\ a[2] < b[2])

\* a comparison that also holds at equality
FloatGreaterOrEqual(a, b) == ~FloatLess(a, b)
\* a > b of JS
FloatGreater(a, b) == FloatLess(b, a)

\* a minimum that does not cap
FloatMinLeft(a, b) == a
\* Math.min(a, b)
FloatMin(a, b) == IF FloatLess(b, a) THEN b ELSE a

\* parseInt() of the attribute values of the model
Num(n) == [nan |-> FALSE, n |-> n]
NaN == [nan |-> TRUE, n |-> 0]
parseInt(s) ==
  CASE s = "0" -> Num(0)
    [] s = "1" -> Num(1)
    [] s = "-1" -> Num(-1)
    [] OTHER -> NaN
\* v >= 0 of JS, false for NaN
NotNegative(v) == ~v.nan /\ v.n >= 0

\* --- calculateClickability ------------------------------------------------
interactiveTags ==
  {"a", "button", "input", "select", "textarea", "option", "label"}
clickableRoles ==
  {"button", "link", "checkbox", "radio", "menuitem", "tab", "option",
   "switch"}
eventAttrs == <<"onclick", "onmousedown", "onmouseup", "ontouchstart">>
clickableTypes == {"button", "submit", "reset", "checkbox", "radio", "file"}

\* one firing layer: score += weight; reasons.push(reason)
Signal(layer, weight, reason) ==
  [layer |-> layer, weight |-> weight, reason |-> reason]

\* the last attribute of eventAttrs the element has
LastEvent(el) ==
  eventAttrs[CHOOSE i \in DOMAIN eventAttrs :
               /\ eventAttrs[i] \in el.events
               /\ \A j \in (i + 1)..Len(eventAttrs) :
                    eventAttrs[j] \notin el.events]
\* the first attribute of eventAttrs the element has (the loop breaks there)
FirstEvent(el) ==
  eventAttrs[CHOOSE i \in DOMAIN eventAttrs :
               /\ eventAttrs[i] \in el.events
               /\ \A j \in 1..(i - 1) : eventAttrs[j] \notin el.events]

\* the layers that fire for the element, in the order of the code
Layers(el) ==
  LET tabindex == parseInt(el.tabindex)
      type == IF el.type \in {NullAttr, ""} THEN "text" ELSE el.type
  IN  (IF el.tag \in interactiveTags
       THEN <<Signal(1, W030, <<"native_tag:", el.tag>>)>> ELSE <<>>)
   \o (IF el.role \notin {NullAttr, ""} /\ el.role \in clickableRoles
       THEN <<Signal(2, W020, <<"aria_role:", el.role>>)>> ELSE <<>>)
   \o (IF el.cursor = "pointer"
       THEN <<Signal(3, W015, <<"cursor_pointer">>)>> ELSE <<>>)
   \o (IF el.href
       THEN <<Signal(4, W020, <<"has_href">>)>> ELSE <<>>)
   \o (IF \E i \in DOMAIN eventAttrs : eventAttrs[i] \in el.events
       THEN <<Signal(5, W015, <<"event:", FirstEvent(el)>>)>> ELSE <<>>)
   \o (IF el.tabindex # NullAttr /\ NotNegative(tabindex)
       THEN <<Signal(6, W010, <<"tabindex">>)>> ELSE <<>>)
   \o (IF el.tag = "input" /\ type \in clickableTypes
       THEN <<Signal(7, W015, <<"input_type:", type>>)>> ELSE <<>>)
   \o (IF el.isContentEditable
       THEN <<Signal(8, W020, <<"contenteditable">>)>> ELSE <<>>)

\* let score = 0, then score += weight for the first n firing layers
RECURSIVE Accumulate(_, _)
Accumulate(fired, n) ==
  IF n = 0 THEN Zero
  ELSE FloatAdd(Accumulate(fired, n - 1), fired[n].weight)

calculateClickability(el) ==
  LET fired == Layers(el)
  IN  [score |-> FloatMin(Accumulate(fired, Len(fired)), One),
       reasons |-> [i \in DOMAIN fired |-> fired[i].reason]]

\* --- elements ---------------------------------------------------------------
\* a <div> without attributes, one CSS pixel large, at the origin.
\* className is the element's class string split at ' ' (<<"">> is '').
PlainElement ==
  [namespace |-> "html", tag |-> "div", role |-> NullAttr,
   cursor |-> "auto", href |-> FALSE, events |-> {}, tabindex |-> NullAttr,
   type |-> NullAttr, contenteditable |-> NullAttr,
   isContentEditable |-> FALSE,
   x |-> 0, y |-> 0, width |-> 1, height |-> 1,
   visibility |-> "visible", display |-> "block", opacity |-> "1",
   id |-> "", className |-> <<"">>]

\* window.innerWidth, window.innerHeight of the page
innerWidth == 2
innerHeight == 2

\* the elements the pages of SpecDom are made of
PageElements ==
  {\* <button>Go</button>
   [PlainElement EXCEPT !.tag = "button"],
   \* <button style="cursor: pointer">
   [PlainElement EXCEPT !.tag = "button", !.cursor = "pointer"],
   \* <a href="#" style="display: none">
   [PlainElement EXCEPT !.tag = "a", !.href = TRUE, !.display = "none",
                        !.width = 0, !.height = 0],
   \* <a href="#" id="home" class="nav">
   [PlainElement EXCEPT !.tag = "a", !.href = TRUE, !.cursor = "pointer",
                        !.id = "home", !.className = <<"nav">>],
   \* <div role="button" tabindex="0">
   [PlainElement EXCEPT !.role = "button", !.tabindex = "0"],
   \* <div>
   PlainElement,
   \* <label>
   [PlainElement EXCEPT !.tag = "label"],
   \* <div tabindex="-1">
   [PlainElement EXCEPT !.tabindex = "-1"],
   \* <input type="submit" class="btn  primary">, below the viewport
   [PlainElement EXCEPT !.tag = "input", !.type = "submit",
                        !.className = <<"btn", "", "primary">>,
                        !.y = innerHeight],
   \* <button style="opacity: 0">
   [PlainElement EXCEPT !.tag = "button", !.opacity = "0"],
   \* <button style="visibility: hidden">
   [PlainElement EXCEPT !.tag = "button", !.visibility = "hidden"],
   \* <a href="#"> inside an <svg>: className is an SVGAnimatedString
   [PlainElement EXCEPT !.namespace = "svg", !.tag = "a", !.href = TRUE,
                        !.cursor = "pointer", !.className = <<"link">>],
   \* <div role="switch">
   [PlainElement EXCEPT !.role = "switch"],
   \* <div tabindex="abc">
   [PlainElement EXCEPT !.tabindex = "abc"],
   \* <text id="caption" contenteditable="true"> inside an <svg>:
   \* isContentEditable is a property of HTML elements only
   [PlainElement EXCEPT !.namespace = "svg", !.tag = "text",
                        !.id = "caption", !.contenteditable = "true"]}

Documents == UNION {[1..n -> PageElements] : n \in 0..MaxElems}

\* the elements calculateClickability is checked on: every combination of
\* what its layers read
ScoreElements ==
  {[PlainElement EXCEPT !.tag = tag, !.role = role, !.cursor = cursor,
                        !.href = href, !.events = events,
                        !.tabindex = tabindex, !.type = type,
                        !.isContentEditable = editable,
                        !.contenteditable =
                            IF editable THEN "true" ELSE NullAttr] :
     tag \in {"button", "input", "label", "div"},
     role \in {NullAttr, "button", "main"},
     cursor \in {"pointer", "auto"},
     href \in BOOLEAN,
     events \in SUBSET {eventAttrs[i] : i \in DOMAIN eventAttrs},
     tabindex \in {NullAttr, "0", "-1", "abc"},
     type \in {NullAttr, "submit", "text"},
     editable \in BOOLEAN}

\* --- getElementInfo ---------------------------------------------------------
\* visibility that looks at the box only
isVisibleBoxOnly(el) == el.width > 0 /\ el.height > 0
isVisible(el) ==
  /\ el.width > 0
  /\ el.height > 0
  /\ el.visibility # "hidden"
  /\ el.display # "none"
  /\ el.opacity # "0"

isInViewport(el) ==
  /\ el.y < innerHeight
  /\ el.y + el.height > 0
  /\ el.x < innerWidth
  /\ el.x + el.width > 0

\* array.join('.')
RECURSIVE Join(_, _)
Join(parts, n) ==
  IF n = 0 THEN <<>>
  ELSE IF n = 1 THEN <<parts[1]>>
  ELSE Join(parts, n - 1) \o <<".", parts[n]>>

\* the selector text, as the sequence of the strings it is concatenated of
cssSelector(el) ==
  IF el.id # ""
  THEN <<"#", el.id>>
  ELSE IF el.className # <<"">>
  THEN LET classes == SelectSeq(el.className, LAMBDA c : c # "")
       IN  <<el.tag, ".">> \o Join(classes, Len(classes))
  ELSE <<el.tag>>

\* el.className.split is not a function: the className of an SVG element
\* is an object, read only when the element has no id
Throws(el) == el.namespace = "svg" /\ el.id = ""

NodeName(n) == <<"node_", n>>

\* the node built for el when nodeId is n
getElementInfo(el, n) ==
  LET clickability == calculateClickability(el)
  IN  [id |-> NodeName(n),
       backend_node_id |-> n + 1,
       tag_name |-> el.tag,
       is_visible |-> isVisible(el),
       is_in_viewport |-> isInViewport(el),
       clickability_score |-> clickability.score,
       clickability_reasons |-> clickability.reasons,
       is_interactive |-> FloatGreater(clickability.score, W030),
       parent_id |-> Null,
       children |-> <<>>,
       css_selector |-> cssSelector(el)]

\* --- getDomTree --------------------------------------------------------------
\* a selector list that has every tag and role the heuristic scores
MatchesScored(el) ==
  \/ el.tag \in {"a", "button", "input", "select", "textarea", "option",
                 "label"}
  \/ el.role \in {"button", "link", "checkbox", "radio", "menuitem", "tab",
                  "option", "switch"}
  \/ "onclick" \in el.events
  \/ el.tabindex # NullAttr
  \/ el.contenteditable = "true"
\* el.matches(interactiveSelectors.join(','))
Matches(el) ==
  \/ el.tag \in {"a", "button", "input", "select", "textarea", "option"}
  \/ el.role \in {"button", "link", "checkbox", "radio", "menuitem", "tab"}
  \/ "onclick" \in el.events
  \/ el.tabindex # NullAttr
  \/ el.contenteditable = "true"

\* document.querySelectorAll(...)
elements == SelectSeq(document, Matches)

\* one pass of the loop over elements
Visit ==
  /\ ~snapshot.done
  /\ visited < Len(elements)
  /\ visited' = visited + 1
  /\ LET el == elements[visited + 1]
     IN  IF Throws(el)
         THEN UNCHANGED <<nodeId, results>>
         ELSE /\ nodeId' = nodeId + 1
              /\ results' = IF getElementInfo(el, nodeId).is_visible
                            THEN Append(results, getElementInfo(el, nodeId))
                            ELSE results
  /\ UNCHANGED <<document, snapshot, bridgeVars, clientVars>>

\* nodeMap[node.id] = node for the first n nodes
RECURSIVE NodeMap(_, _)
NodeMap(nodes, n) ==
  IF n = 0 THEN <<>>
  ELSE (nodes[n].id :> nodes[n]) @@ NodeMap(nodes, n - 1)

\* roots that keep only the interactive nodes
RootsInteractive(nodes) ==
  LET kept == SelectSeq(nodes, LAMBDA node : node.is_interactive)
  IN  [i \in DOMAIN kept |-> kept[i].id]
\* nodes.filter(n => !n.parent_id).map(n => n.id)
Roots(nodes) ==
  LET kept == SelectSeq(nodes, LAMBDA node : node.parent_id = Null)
  IN  [i \in DOMAIN kept |-> kept[i].id]

\* the loop is over: page.evaluate resolves and the snapshot is built
Assemble ==
  /\ ~snapshot.done
  /\ visited = Len(elements)
  /\ snapshot' = [roots |-> Roots(results),
                  nodes |-> NodeMap(results, Len(results)),
                  done |-> TRUE]
  /\ UNCHANGED <<document, visited, nodeId, results, bridgeVars,
                 clientVars>>

InitDom ==
  /\ InitBridge
  /\ document \in Documents
  /\ visited = 0
  /\ nodeId = 0
  /\ results = <<>>
  /\ snapshot = NoSnapshot
  /\ NoClient

NextDom == Visit \/ Assemble

SpecDom == InitDom /\ [][NextDom]_vars

\* the detection pass on a page of one element
InitScore ==
  /\ InitBridge
  /\ document \in {<<el>> : el \in ScoreElements}
  /\ visited = 0
  /\ nodeId = 0
  /\ results = <<>>
  /\ snapshot = NoSnapshot
  /\ NoClient

SpecScore == InitScore /\ [][NextDom]_vars

(* --------------------------- web channel client ------------------------ *)
\* crates/extensions/channel-web/src/static/app.js.  One step is one event
\* handler of the page: a socket event, the reconnect timer, the submit of
\* the form, or the user editing the input.  The status element and the
\* console are left out.

\* largest number of messages shown
MaxMessages == 2

maxReconnectAttempts == 5

\* String.prototype.trim on the input values of the model
InputValues == {"", "  ", "hi", " hi "}
Trim(s) ==
  CASE s = "  " -> ""
    [] s = " hi " -> "hi"
    [] OTHER -> s

\* frames the server may send: text that is no JSON, the JSON null, and
\* JSON objects with or without type and content
Frame(kind, type, content) == [kind |-> kind, type |-> type, content |-> content]
Frames ==
  {Frame("garbage", "-", "-"), Frame("null", "-", "-")}
  \cup {Frame("object", type, content) :
          type \in {"message", "status", "(undefined)"},
          content \in {"hello", "", "(undefined)"}}

\* JSON.stringify({ content: text })
ContentFrame(text) == [content |-> text]

\* the result of addMessage(content, role)
addMessage(content, role) ==
  Append(messages, [content |-> content, role |-> role])

\* connect(): a new socket
connect == ws' = "CONNECTING"

onopen ==
  /\ ws = "CONNECTING"
  /\ ws' = "OPEN"
  /\ reconnectAttempts' = 0
  /\ inputDisabled' = FALSE
  /\ UNCHANGED <<timers, inputValue, messages, sent>>

\* ws.onmessage: JSON.parse throws on text that is no JSON, data.type throws
\* on null; both are caught
onmessage(frame) ==
  /\ ws \in {"OPEN", "CLOSING"}
  /\ IF /\ frame.kind = "object"
        /\ frame.type = "message"
        /\ frame.content \notin {"", "(undefined)"}
     THEN /\ Len(messages) < MaxMessages
          /\ messages' = addMessage(frame.content, "assistant")
     ELSE UNCHANGED messages
  /\ UNCHANGED <<ws, reconnectAttempts, timers, inputValue, inputDisabled,
                 sent>>

\* the closing handshake starts
Closing ==
  /\ ws = "OPEN"
  /\ ws' = "CLOSING"
  /\ UNCHANGED <<reconnectAttempts, timers, inputValue, inputDisabled,
                 messages, sent>>

\* a close handler that still retries when the count is at the limit
oncloseRetriesAtLimit ==
  /\ ws \in {"CONNECTING", "OPEN", "CLOSING"}
  /\ ws' = "CLOSED"
  /\ inputDisabled' = TRUE
  /\ IF reconnectAttempts <= maxReconnectAttempts
     THEN /\ reconnectAttempts' = reconnectAttempts + 1
          /\ timers' = timers + 1
     ELSE UNCHANGED <<reconnectAttempts, timers>>
  /\ UNCHANGED <<inputValue, messages, sent>>

onclose ==
  /\ ws \in {"CONNECTING", "OPEN", "CLOSING"}
  /\ ws' = "CLOSED"
  /\ inputDisabled' = TRUE
  /\ IF reconnectAttempts < maxReconnectAttempts
     THEN /\ reconnectAttempts' = reconnectAttempts + 1
          /\ timers' = timers + 1
     ELSE UNCHANGED <<reconnectAttempts, timers>>
  /\ UNCHANGED <<inputValue, messages, sent>>

\* ws.onerror only logs
onerror ==
  /\ ws \in {"CONNECTING", "OPEN", "CLOSING"}
  /\ UNCHANGED clientVars

\* the reconnect timer fires
Reconnect ==
  /\ timers > 0
  /\ timers' = timers - 1
  /\ connect
  /\ UNCHANGED <<reconnectAttempts, inputValue, inputDisabled, messages,
                 sent>>

\* a submit that sends the input as it is
onsubmitUntrimmed ==
  /\ IF inputValue # "" /\ ws = "OPEN"
     THEN /\ Len(messages) < MaxMessages
          /\ messages' = addMessage(inputValue, "user")
          /\ sent' = Append(sent, ContentFrame(inputValue))
          /\ inputValue' = ""
     ELSE UNCHANGED <<messages, sent, inputValue>>
  /\ UNCHANGED <<ws, reconnectAttempts, timers, inputDisabled>>

\* form.onsubmit
onsubmit ==
  /\ IF Trim(inputValue) # "" /\ ws # "null" /\ ws = "OPEN"
     THEN /\ Len(messages) < MaxMessages
          /\ messages' = addMessage(Trim(inputValue), "user")
          /\ sent' = Append(sent, ContentFrame(Trim(inputValue)))
          /\ inputValue' = ""
     ELSE UNCHANGED <<messages, sent, inputValue>>
  /\ UNCHANGED <<ws, reconnectAttempts, timers, inputDisabled>>

\* the user edits the input, which is possible while it is enabled
UserTypes(value) ==
  /\ ~inputDisabled
  /\ inputValue' = value
  /\ UNCHANGED <<ws, reconnectAttempts, timers, inputDisabled, messages,
                 sent>>

\* the page after the script ran: connect() was called once
InitWeb ==
  /\ InitBridge
  /\ NoDetection
  /\ ws = "CONNECTING"
  /\ reconnectAttempts = 0
  /\ timers = 0
  /\ inputValue = ""
  /\ inputDisabled \in BOOLEAN
  /\ messages = <<>>
  /\ sent = <<>>

\* the handlers touch nothing but the state of the client
ClientOnly == UNCHANGED <<bridgeVars, detectVars>>

NextWeb ==
  \/ onopen /\ ClientOnly
  \/ (\E frame \in Frames : onmessage(frame)) /\ ClientOnly
  \/ Closing /\ ClientOnly
  \/ onclose /\ ClientOnly
  \/ onerror /\ ClientOnly
  \/ Reconnect /\ ClientOnly
  \/ onsubmit /\ ClientOnly
  \/ (\E value \in InputValues : UserTypes(value)) /\ ClientOnly

SpecWeb == InitWeb /\ [][NextWeb]_vars

(* ------------------------------- claims -------------------------------- *)
\* the step wrote exactly one line to stdout
Wrote == Len(out') = Len(out) + 1 /\ SubSeq(out', 1, Len(out)) = out
Written == out'[Len(out')]
\* the positions of out that carry a handle as the result
Issued == {i \in DOMAIN out : out[i].result.t = "handle"}
IsError(l) == l.keys = {"id", "error"} /\ l.code = -1
IsNullSuccess(l) == l.keys = {"id", "result"} /\ l.result = Null

\* C1: all handles ever returned are pairwise distinct, no numeric suffix is
\* shared between two handles of either kind (one counter), and a suffix
\* that was issued is never issued again, also after its entry was closed:
\* every issued or registered suffix lies below the counter.
C1_HandlesUnique ==
  /\ \A i, j \in Issued : i # j => out[i].result.h[2] # out[j].result.h[2]
  /\ \A i \in Issued : out[i].result.h[2] < idCounter
  /\ \A h \in (DOMAIN browsers) \cup (DOMAIN pages) : h[2] < idCounter

\* a handle was issued and closed, a close succeeded, and another handle was
\* issued after it
C1_Witness ==
  \E i, k, j \in DOMAIN out :
    /\ i < k /\ k < j
    /\ i \in Issued /\ j \in Issued
    /\ IsNullSuccess(out[k])
    /\ out[i].result.h \notin (DOMAIN browsers) \cup (DOMAIN pages)

\* C2: the response lines are written in the order their request lines
\* were read (the id of a request is the position of its line).
C2_OutputFollowsInput ==
  \A i, j \in DOMAIN out :
    (i < j /\ out[i].id # 0 /\ out[j].id # 0) => out[i].id < out[j].id

\* C3: at most one request is in dispatch at any time.
C3_OneInDispatch == Cardinality(pending) <= 1

\* C4: a line JSON.parse rejects gets exactly one response
\* {id: 0, error: {message, code: -1}}, changes neither the maps nor the
\* counter, calls no engine capability, and leaves the loop and every
\* suspended callback as they were.
C4_MalformedLine ==
  [][Receive(Line("malformed", "-", NoParams)) =>
       /\ Wrote
       /\ Written.id = 0 /\ IsError(Written)
       /\ UNCHANGED <<browsers, pages, idCounter, pending, exited, open,
                      engineCalls, closeCalls>>]_vars

\* a malformed line was answered and a later request was still served
C4_Witness ==
  \E i, j \in DOMAIN out :
    /\ i < j
    /\ out[i].id = 0 /\ out[i].message = SyntaxErrorMsg
    /\ out[j].id > 0 /\ out[j].keys = {"id", "result"}

\* C5: every parsed request that is not shutdown gets its response; stated
\* for the end of the run: when the process has ended, no callback of a
\* parsed request is left suspended before its response.
C5_EveryRequestAnswered == exited => pending = {}

\* C6: every line written has exactly one of the shapes {id, result} and
\* {id, error: {message, code}}, and every error code is -1.
C6_ResponseShape ==
  \A i \in DOMAIN out :
    \/ out[i].keys = {"id", "result"}
    \/ IsError(out[i])

\* C7: a request whose method is no case of the switch is answered with the
\* error 'Unknown method: <method>', code -1, under its own id, calls no
\* engine capability and leaves maps and counter unchanged.
C7_UnknownMethod ==
  [][\A m \in UnknownNames :
       Receive(Line("request", m, NoParams)) =>
         /\ Wrote
         /\ Written.id = nRead + 1 /\ IsError(Written)
         /\ Written.message.text = "Unknown method: "
         /\ Written.message.m = m
         /\ UNCHANGED <<browsers, pages, idCounter, pending, exited, open,
                        engineCalls, closeCalls>>]_vars

C7_Witness ==
  \E i \in DOMAIN out :
    /\ out[i].message.text = "Unknown method: "
    /\ out[i].message.m \in UnknownNames
    /\ DOMAIN browsers # {}

\* C8: every action/inspection method called with a page handle that is no
\* key of pages is answered with the error 'Page not found: <handle>', calls
\* no capability and leaves the registry unchanged.
C8_PageNotFound ==
  [][\A h \in PageArgs \ DOMAIN pages :
       \/ /\ Wrote
          /\ Written.id = nRead + 1 /\ IsError(Written)
          /\ Written.message.text = "Page not found: "
          /\ Written.message.h = h
          /\ UNCHANGED <<browsers, pages, idCounter, pending, exited, open,
                         engineCalls, closeCalls>>
       \/ \A m \in PageMethods : ~Receive(Line("request", m, h))]_vars

\* a page is registered and a call on another page handle, which is no key
\* of pages, was answered with the error
C8_Witness ==
  \E i, j \in DOMAIN out :
    /\ i < j
    /\ i \in Issued /\ out[i].result.h \in DOMAIN pages
    /\ out[j].message.text = "Page not found: "
    /\ out[j].message.h \in PageArgs \ DOMAIN pages

\* C9: newPage with a browser handle that is no key of browsers is answered
\* with the error 'Browser not found: <handle>', creates no context and no
\* page, registers nothing and does not advance the counter.
C9_BrowserNotFound ==
  [][\A h \in BrowserArgs :
       (h \notin DOMAIN browsers /\ Receive(Line("request", "newPage", h))) =>
         /\ Wrote
         /\ Written.id = nRead + 1 /\ IsError(Written)
         /\ Written.message.text = "Browser not found: "
         /\ Written.message.h = h
         /\ UNCHANGED <<browsers, pages, idCounter, pending, exited, open,
                        engineCalls, closeCalls>>]_vars

\* a browser was launched and closed, and a later newPage on it failed
C9_Witness ==
  \E i, j \in DOMAIN out :
    /\ i < j
    /\ i \in Issued /\ out[i].result.h[1] = "browser"
    /\ out[j].message = BrowserNotFound(out[i].result.h)

\* C10: closeBrowser / closePage on a handle that is not registered (never
\* issued, or registered before and closed) answers success with result
\* null, calls no capability and leaves maps and counter unchanged, every
\* time it is called.
C10_CloseMissing ==
  [][/\ \A h \in BrowserArgs :
          (h \notin DOMAIN browsers
             /\ Receive(Line("request", "closeBrowser", h))) =>
            /\ Wrote
            /\ Written.id = nRead + 1 /\ IsNullSuccess(Written)
            /\ UNCHANGED <<browsers, pages, idCounter, pending, exited, open,
                           engineCalls, closeCalls>>
     /\ \A h \in PageArgs :
          (h \notin DOMAIN pages
             /\ Receive(Line("request", "closePage", h))) =>
            /\ Wrote
            /\ Written.id = nRead + 1 /\ IsNullSuccess(Written)
            /\ UNCHANGED <<browsers, pages, idCounter, pending, exited, open,
                           engineCalls, closeCalls>>]_vars

\* a browser was launched and closed, and two more results null followed
\* nothing else could have produced
C10_Witness ==
  /\ Len(out) = 3
  /\ 1 \in Issued
  /\ IsNullSuccess(out[2]) /\ IsNullSuccess(out[3])
  /\ DOMAIN browsers = {} /\ pending = {}
  /\ engineCalls = 2

\* the step in which the suspended callback p wrote its response
Finished(p) ==
  /\ p \in pending
  /\ \A q \in pending' : q.id # p.id
  /\ Wrote
  /\ Written.id = p.id
IsSuccess(l) == "error" \notin l.keys
\* the keys of pages whose owning browser is no key of browsers
Dangling == {h \in DOMAIN pages : pages[h].browserId \notin DOMAIN browsers}

\* C11: when a response carrying a handle is written, the handle is a key
\* of the registry: a browser handle (launchBrowser, connectBrowser) of
\* browsers, a page handle (newPage) of pages.
C11_ReturnedHandleRegistered ==
  [][\A p \in pending :
       (Finished(p) /\ Written.result.t = "handle") =>
         /\ p.method \in {"launchBrowser", "connectBrowser"} =>
              /\ Written.result.h[1] = "browser"
              /\ Written.result.h \in DOMAIN browsers'
         /\ p.method = "newPage" =>
              /\ Written.result.h[1] = "page"
              /\ Written.result.h \in DOMAIN pages'
         /\ p.method \in {"launchBrowser", "connectBrowser", "newPage"}]_vars

\* a browser handle and a page handle were returned and both are registered
C11_Witness ==
  \E i, j \in Issued :
    /\ out[i].result.h \in DOMAIN browsers
    /\ out[j].result.h \in DOMAIN pages
    /\ pending = {}

\* C12: a successful closeBrowser(b) removes b and nothing else from
\* browsers and leaves pages as it was, so the pages of b stay registered
\* with a browserId that is no key of browsers.
C12_CloseBrowserOrphansPages ==
  [][\A p \in pending :
       (p.method = "closeBrowser" /\ Finished(p) /\ IsSuccess(Written)) =>
         /\ pages' = pages
         /\ DOMAIN browsers' = (DOMAIN browsers) \ {p.arg}
         /\ \A b \in DOMAIN browsers' : browsers'[b] = browsers[b]
         /\ idCounter' = idCounter]_vars

\* the browser of a registered page was closed
C12_Witness ==
  /\ Dangling # {}
  /\ \E i \in DOMAIN out : IsNullSuccess(out[i])

\* C13: a dangling page fails on its next use: no action/inspection request
\* on a page whose owning browser was closed by closeBrowser is answered
\* with a success, neither at once nor after an await.
C13_DanglingPageFails ==
  [][/\ \A h \in Dangling : \A m \in PageMethods :
          ReceiveInSession(Line("request", m, h)) =>
            ~(Wrote /\ Written.id = nRead + 1 /\ IsSuccess(Written))
     /\ \A p \in pending :
          (p.method \in PageMethods /\ p.arg \in Dangling /\ Finished(p)) =>
            IsError(Written)]_vars

\* C14: closePage(p) on a registered page closes the page, then its
\* context, and only then removes the entry; after its success p is no key
\* of pages and never becomes one again, browsers is unchanged, and every
\* later action/inspection on p is answered 'Page not found: p'.
C14_ClosePage ==
  /\ [](\A p \in pending :
          (p.method = "closePage" /\ p.pc = "contextClose") =>
            /\ Cap("page", p.ctx.by, p.ctx.of) \notin open
            /\ p.cap = p.ctx)
  /\ [][/\ \A p \in pending :
             (p.method = "closePage" /\ p.pc # "start" /\ Finished(p)
                /\ IsSuccess(Written)) =>
               /\ p.pc = "contextClose"
               /\ p.ctx \notin open'
               /\ Cap("page", p.ctx.by, p.ctx.of) \notin open'
               /\ DOMAIN pages' = (DOMAIN pages) \ {p.arg}
               /\ \A h \in DOMAIN pages' : pages'[h] = pages[h]
               /\ browsers' = browsers
               /\ idCounter' = idCounter
        /\ \A h \in PageArgs \ DOMAIN pages :
             h[2] < idCounter =>
               /\ h \notin DOMAIN pages'
               /\ \A m \in PageMethods :
                    ReceiveInSession(Line("request", m, h)) =>
                      /\ Wrote
                      /\ Written.id = nRead + 1 /\ IsError(Written)
                      /\ Written.message.text = "Page not found: "
                      /\ Written.message.h = h]_vars

\* the page of the session was closed by closePage and the next request on
\* its handle was answered 'Page not found'
C14_Witness ==
  /\ Len(out) = Len(SessionOut) + 2
  /\ IsNullSuccess(out[Len(SessionOut) + 1])
  /\ out[Len(SessionOut) + 2].message = PageNotFound(Handle("page", 2))
  /\ DOMAIN pages = {}
  /\ SessionPage \notin open /\ SessionContext \notin open
  /\ SessionBrowser \in open

\* C15: closeBrowser(b) on a registered browser closes the underlying
\* browser and removes b; after its success b is no key of browsers and
\* never becomes one again, and every later newPage(b) is answered
\* 'Browser not found: b'.
C15_CloseBrowser ==
  [][/\ \A p \in pending :
          (p.method = "closeBrowser" /\ Finished(p) /\ IsSuccess(Written)) =>
            /\ p.cap.type = "browser"
            /\ p.cap \notin open'
            /\ p.cap.by \in DOMAIN closeCalls
            /\ p.arg \notin DOMAIN browsers'
     /\ \A h \in BrowserArgs \ DOMAIN browsers :
          h[2] < idCounter =>
            /\ h \notin DOMAIN browsers'
            /\ Receive(Line("request", "newPage", h)) =>
                 /\ Wrote
                 /\ Written.id = nRead + 1 /\ IsError(Written)
                 /\ Written.message.text = "Browser not found: "
                 /\ Written.message.h = h]_vars

\* browser_1 was launched, closed by closeBrowser, and a newPage on it failed
C15_Witness ==
  /\ Len(out) = 3
  /\ out[1].result = Val("handle", Handle("browser", 1))
  /\ IsNullSuccess(out[2])
  /\ out[3].message = BrowserNotFound(Handle("browser", 1))
  /\ DOMAIN closeCalls = {1} /\ closeCalls[1] = 1
  /\ open = {}

\* C16: shutdown invokes close on every registered browser, whatever the
\* outcome of the closes before it, and then ends the process: every
\* resumption of the shutdown loop, after a close that succeeded or failed,
\* either goes on to a later browser or exits, writes no response and
\* leaves the registry alone; when the process has ended, close was invoked
\* on every browser that is registered.
C16_Shutdown ==
  /\ [](exited =>
          \A b \in DOMAIN browsers : browsers[b].by \in DOMAIN closeCalls)
  /\ [][/\ \A p \in pending :
             (p.method = "shutdown" /\ p \notin pending') =>
               /\ out' = out
               /\ UNCHANGED <<browsers, pages, idCounter>>
               /\ \/ exited' /\ Remaining(p.cur) = {}
                  \/ \E q \in pending' :
                       /\ q.id = p.id /\ q.method = "shutdown"
                       /\ q.cur > p.cur
                       /\ q.cap = browsers[Handle("browser", q.cur)]
                       /\ closeCalls' = CloseInvoked(q.cap)
        /\ exited' =>
             \/ exited
             \/ \E p \in pending : p.method = "shutdown" /\ p \notin pending'
             \/ (DOMAIN browsers = {} /\ nRead' = nRead + 1)]_vars

\* the process ended after a shutdown that closed one of two registered
\* browsers and failed to close the other
C16_Witness ==
  /\ exited
  /\ Cardinality(DOMAIN browsers) = 2
  /\ \E a, b \in DOMAIN browsers :
       /\ browsers[a] \in open /\ browsers[b] \notin open
       /\ closeCalls[browsers[a].by] = 1 /\ closeCalls[browsers[b].by] = 1

\* C17: once a shutdown request has been read, no line read after it starts
\* an operation or gets a response: while the shutdown callback is
\* suspended, no callback and no response line has a later id.
C17_NothingAfterShutdown ==
  \A p \in pending :
    p.method = "shutdown" =>
      /\ \A q \in pending : q.id <= p.id
      /\ \A i \in DOMAIN out : out[i].id <= p.id

\* a close of the page of p, or of its owning browser, was requested after
\* p and is still in flight, or has closed the page
CloseRequested(p) ==
  \/ p.cap \notin open
  \/ \E q \in pending :
       /\ q.id > p.id
       /\ \/ q.method = "closePage" /\ q.arg = p.arg
          \/ /\ q.method = "closeBrowser"
             /\ p.arg \in DOMAIN pages
             /\ q.arg = pages[p.arg].browserId

C19_OnlyLifecycleMutates ==
  [][/\ <<browsers, pages, idCounter>>' # <<browsers, pages, idCounter>> =>
          \E p \in pending :
            /\ p.method \in {"launchBrowser", "connectBrowser", "newPage",
                             "closeBrowser", "closePage"}
            /\ Finished(p)
            /\ IsSuccess(Written)
     /\ (Wrote /\ IsError(Written)) =>
          UNCHANGED <<browsers, pages, idCounter>>
     /\ nRead' # nRead => UNCHANGED <<browsers, pages, idCounter>>]_vars

\* with a browser and a page registered, a page request failed in the
\* engine; the registry is as newPage left it
C19_Witness ==
  /\ \E i \in DOMAIN out :
       out[i].id = 3 /\ out[i].message = EngineFault
  /\ DOMAIN browsers # {} /\ DOMAIN pages # {}
  /\ idCounter = 3
  /\ pending = {}

\* C20: each action/inspection operation on a registered page handle invokes
\* exactly one primitive, on the page stored under that handle, and on
\* success returns null (actions) or the value of the primitive
\* (inspections).
C20_OnePrimitive ==
  [][/\ \A h \in PageArgs \cap DOMAIN pages :
          /\ \A m \in PrimitiveMethods :
               Receive(Line("request", m, h)) =>
                 /\ engineCalls' = engineCalls + 1
                 /\ out' = out
                 /\ pending' = pending \cup
                      {Callback(nRead + 1, m, h, "primitive", pages[h].page,
                                NoCap, 0)}
                 /\ UNCHANGED <<browsers, pages, idCounter, open>>
          /\ Receive(Line("request", "getUrl", h)) =>
               /\ engineCalls' = engineCalls + 1
               /\ Wrote
               /\ Written.id = nRead + 1
               /\ Written.keys = {"id", "result"} /\ Written.result = Str
               /\ UNCHANGED <<browsers, pages, idCounter, open, pending>>
     /\ \A p \in pending :
          (p.method \in PrimitiveMethods /\ p \notin pending') =>
            /\ Finished(p)
            /\ engineCalls' = engineCalls
            /\ UNCHANGED <<browsers, pages, idCounter, open>>
            /\ IsSuccess(Written) =>
                 IF p.method \in ActionMethods
                 THEN IsNullSuccess(Written)
                 ELSE Written.result \in PrimitiveValues(p.method)]_vars

\* an action on the registered page succeeded after one primitive: launch,
\* newContext, newPage and the primitive are the four capability calls
C20_Witness ==
  /\ Len(out) = 3
  /\ out[2].result = Val("handle", Handle("page", 2))
  /\ IsNullSuccess(out[3])
  /\ Handle("page", 2) \in DOMAIN pages
  /\ engineCalls = 4
  /\ pending = {}

\* C21: every successful newPage(b) registers one entry {page, context,
\* browserId: b} whose context was created by that call: no two page entries
\* share a context or a page, every entry's browserId is a browser handle
\* that was issued, a newPage goes on to the engine only if its handle is a
\* key of browsers when it is read, and its success adds exactly one entry,
\* with that handle as browserId and a context no other entry holds.
C21_FreshContextPerPage ==
  /\ [](\A h1, h2 \in DOMAIN pages :
          h1 # h2 => /\ pages[h1].context # pages[h2].context
                     /\ pages[h1].page # pages[h2].page)
  /\ [](\A h \in DOMAIN pages :
          /\ pages[h].context.type = "context"
          /\ pages[h].page.type = "page"
          /\ \E i \in DOMAIN out :
               out[i].result = Val("handle", pages[h].browserId))
  /\ [][/\ \A b \in BrowserArgs :
             (Receive(Line("request", "newPage", b)) /\ pending' # pending)
               => b \in DOMAIN browsers
        /\ \A p \in pending :
             (p.method = "newPage" /\ Finished(p) /\ IsSuccess(Written)) =>
               /\ Written.result = Val("handle", Handle("page", idCounter))
               /\ Handle("page", idCounter) \notin DOMAIN pages
               /\ DOMAIN pages' = DOMAIN pages \cup {Handle("page", idCounter)}
               /\ \A h \in DOMAIN pages : pages'[h] = pages[h]
               /\ pages'[Handle("page", idCounter)].browserId = p.arg
               /\ pages'[Handle("page", idCounter)].context = p.ctx
               /\ p.ctx.by = p.id
               /\ \A h \in DOMAIN pages : pages[h].context # p.ctx]_vars

\* two pages were opened on the same browser
C21_Witness ==
  /\ Cardinality(DOMAIN pages) = 2
  /\ \A h \in DOMAIN pages : pages[h].browserId = Handle("browser", 1)
  /\ pending = {}

\* --- element detection: what the claims read -------------------------------
\* the double nearest to n/20, for n = 0..20, at position n + 1: the value
\* of the decimal literal with two places
Twentieths ==
  <<<<0, 0>>, <<13421772, 214748365>>, <<26843545, 161061274>>,
    <<40265318, 107374182>>, <<53687091, 53687092>>, <<67108864, 0>>,
    <<80530636, 214748364>>, <<93952409, 161061272>>, <<107374182, 107374184>>,
    <<120795955, 53687092>>, <<134217728, 0>>, <<147639500, 214748368>>,
    <<161061273, 161061272>>, <<174483046, 107374184>>, <<187904819, 53687088>>,
    <<201326592, 0>>, <<214748364, 214748368>>, <<228170137, 161061272>>,
    <<241591910, 107374184>>, <<255013683, 53687088>>, <<268435456, 0>>>>
Decimal(hundredths) == Twentieths[(hundredths \div 5) + 1]

\* the signals of the heuristic that fire for an element, by layer
Fires(el) ==
  {layer \in 1..8 :
     CASE layer = 1 -> el.tag \in {"a", "button", "input", "select",
                                   "textarea", "option", "label"}
       [] layer = 2 -> el.role \in {"button", "link", "checkbox", "radio",
                                    "menuitem", "tab", "option", "switch"}
       [] layer = 3 -> el.cursor = "pointer"
       [] layer = 4 -> el.href
       [] layer = 5 -> el.events # {}
       [] layer = 6 -> el.tabindex \in {"0", "1"}
       [] layer = 7 -> el.tag = "input" /\ el.type \in
                         {"button", "submit", "reset", "checkbox", "radio",
                          "file"}
       [] layer = 8 -> el.isContentEditable}
\* the weights of the eight signals, in hundredths
Weights == <<30, 20, 15, 20, 15, 10, 15, 20>>
ReasonNames ==
  <<"native_tag:", "aria_role:", "cursor_pointer", "has_href", "event:",
    "tabindex", "input_type:", "contenteditable">>
RECURSIVE SumOfWeights(_)
SumOfWeights(layers) ==
  IF layers = {} THEN 0
  ELSE LET l == CHOOSE x \in layers : TRUE
       IN  Weights[l] + SumOfWeights(layers \ {l})
\* the firing layers in increasing order
RECURSIVE InOrder(_)
InOrder(layers) ==
  IF layers = {} THEN <<>>
  ELSE LET l == CHOOSE x \in layers : \A y \in layers : x <= y
       IN  <<l>> \o InOrder(layers \ {l})
Smaller(a, b) == IF a < b THEN a ELSE b

\* the element with the attributes of the chosen layers added
WithSignals(el, add) ==
  [el EXCEPT
     !.tag = IF 1 \in add /\ el.tag = "div" THEN "button" ELSE @,
     !.role = IF 2 \in add THEN "button" ELSE @,
     !.cursor = IF 3 \in add THEN "pointer" ELSE @,
     !.href = IF 4 \in add THEN TRUE ELSE @,
     !.events = IF 5 \in add THEN @ \cup {"onmouseup"} ELSE @,
     !.tabindex = IF 6 \in add THEN "0" ELSE @,
     !.type = IF 7 \in add THEN "submit" ELSE @,
     !.isContentEditable = IF 8 \in add THEN TRUE ELSE @,
     !.contenteditable = IF 8 \in add THEN "true" ELSE @]

\* C22: the score is monotonic in the signals and capped: the score of a
\* scored element is at least 0.0 and at most 1.0, and the element that
\* differs from it only by one more firing signal scores at least as much
\* (that element is scored in another run, so the order extends to any
\* number of added signals).
C22_MonotonicCapped ==
  snapshot.done =>
    \A i \in DOMAIN results :
      /\ ~FloatLess(results[i].clickability_score, Zero)
      /\ ~FloatLess(One, results[i].clickability_score)
      /\ \A layer \in 1..8 :
           LET more == WithSignals(document[1], {layer})
           IN  /\ more \in ScoreElements
               /\ Matches(more)
               /\ Fires(document[1]) \subseteq Fires(more)
                    => ~FloatLess(calculateClickability(more).score,
                                  results[i].clickability_score)

\* all eight signals fire (raw sum 1.45) and the score is 1.0
C22_Witness ==
  /\ snapshot.done
  /\ Len(results) = 1
  /\ Fires(document[1]) = 1..8
  /\ results[1].clickability_score = One

\* C30: the score equals min(1.0, sum of the weights of the firing signals)
\* and the reasons are one reason per firing signal, in layer order.
C30_ScoreIsSumOfWeights ==
  snapshot.done =>
    \A i \in DOMAIN results :
      LET fires == InOrder(Fires(document[1]))
      IN  /\ results[i].clickability_score =
               Decimal(Smaller(100, SumOfWeights(Fires(document[1]))))
          /\ Len(results[i].clickability_reasons) = Len(fires)
          /\ \A j \in DOMAIN fires :
               results[i].clickability_reasons[j][1] = ReasonNames[fires[j]]

\* the candidates the loop has passed that are hidden by none of the five
\* conditions (and whose info could be built)
Hidden(el) ==
  \/ el.width = 0
  \/ el.height = 0
  \/ el.display = "none"
  \/ el.visibility = "hidden"
  \/ el.opacity = "0"
Shown ==
  SelectSeq(SubSeq(elements, 1, visited),
            LAMBDA el : ~Hidden(el) /\ ~Throws(el))
NodesOf(snap) == {snap.nodes[id] : id \in DOMAIN snap.nodes}

\* C23: for every node of a snapshot, is_interactive is true exactly when
\* clickability_score > 0.3; a node whose only reason is the native tag has
\* the score 0.3 and is not interactive.
C23_InteractiveIffAboveThreshold ==
  \A node \in NodesOf(snapshot) \cup {results[i] : i \in DOMAIN results} :
    /\ node.is_interactive <=> FloatLess(Decimal(30), node.clickability_score)
    /\ (Len(node.clickability_reasons) = 1 /\
        node.clickability_reasons[1][1] = "native_tag:") =>
         /\ node.clickability_score = Decimal(30)
         /\ ~node.is_interactive

\* a snapshot with a node that has only the native-tag signal and a node
\* above the threshold
C23_Witness ==
  /\ snapshot.done
  /\ \E n1, n2 \in NodesOf(snapshot) :
       /\ n1.clickability_reasons = <<(<<"native_tag:", "button">>)>>
       /\ ~n1.is_interactive
       /\ n2.is_interactive

\* C24: only visible elements are included: every node has is_visible true,
\* and the nodes are, in order, the nodes of the candidates that are hidden
\* by none of zero width, zero height, display none, visibility hidden and
\* opacity 0; roots names only such nodes.
C24_OnlyVisible ==
  /\ \A i \in DOMAIN results : results[i].is_visible
  /\ Len(results) = Len(Shown)
  /\ \A i \in DOMAIN results :
       /\ results[i].tag_name = Shown[i].tag
       /\ results[i].css_selector = cssSelector(Shown[i])
  /\ snapshot.done =>
       /\ \A node \in NodesOf(snapshot) : node.is_visible
       /\ \A i \in DOMAIN snapshot.roots :
            /\ snapshot.roots[i] \in DOMAIN snapshot.nodes
            /\ snapshot.nodes[snapshot.roots[i]] = results[i]

\* a snapshot of a page with hidden candidates of each kind and one node
C24_Witness ==
  /\ snapshot.done
  /\ Len(snapshot.roots) = 1
  /\ \E i, j \in DOMAIN elements :
       /\ elements[i].opacity = "0"
       /\ elements[j].display = "none" \/ elements[j].visibility = "hidden"

\* C25: in a snapshot with k nodes the ids are node_0 .. node_(k-1), the
\* i-th visible candidate in selection order having the id node_i.
C25_SequentialIds ==
  snapshot.done =>
    /\ \A i \in DOMAIN results : results[i].id = NodeName(i - 1)
    /\ \A i \in DOMAIN snapshot.roots : snapshot.roots[i] = NodeName(i - 1)

\* C26: roots is the full list of node ids, without duplicates and in
\* selection order, and every node has parent_id null and no children.
C26_RootsAreAllNodes ==
  snapshot.done =>
    /\ {snapshot.roots[i] : i \in DOMAIN snapshot.roots}
         = DOMAIN snapshot.nodes
    /\ \A i, j \in DOMAIN snapshot.roots :
         i # j => snapshot.roots[i] # snapshot.roots[j]
    /\ Len(snapshot.roots) = Len(results)
    /\ \A i \in DOMAIN snapshot.roots : snapshot.roots[i] = results[i].id
    /\ \A i, j \in DOMAIN results :
         i < j => results[i].backend_node_id < results[j].backend_node_id
    /\ \A node \in NodesOf(snapshot) :
         node.parent_id = Null /\ node.children = <<>>

\* a snapshot with more than one node, one of them not interactive
C26_Witness ==
  /\ snapshot.done
  /\ Len(snapshot.roots) >= 2
  /\ \E node \in NodesOf(snapshot) : ~node.is_interactive

\* the page of the scenario: a visible <button> with the pointer cursor and
\* a hidden <a href="#">, in either order
ScenarioButton == [PlainElement EXCEPT !.tag = "button", !.cursor = "pointer"]
ScenarioLink ==
  [PlainElement EXCEPT !.tag = "a", !.href = TRUE, !.display = "none",
                       !.width = 0, !.height = 0]

\* C27: on the page with one visible <button> and one hidden <a href="#">,
\* the snapshot has exactly one node, with tag_name button, a score of at
\* least 0.45 and the reason native_tag:button.
C27_Scenario ==
  (/\ snapshot.done
   /\ document \in {<<ScenarioButton, ScenarioLink>>,
                    <<ScenarioLink, ScenarioButton>>}) =>
    /\ Len(snapshot.roots) = 1
    /\ Cardinality(DOMAIN snapshot.nodes) = 1
    /\ \A node \in NodesOf(snapshot) :
         /\ node.tag_name = "button"
         /\ ~FloatLess(node.clickability_score, Decimal(45))
         /\ \E j \in DOMAIN node.clickability_reasons :
              node.clickability_reasons[j] = <<"native_tag:", "button">>

\* C28: within one snapshot no two distinct nodes carry the same
\* css_selector.
C28_SelectorsUnique ==
  snapshot.done =>
    \A i, j \in DOMAIN results :
      i # j => results[i].css_selector # results[j].css_selector

\* a frame the client is to display
Displayable(frame) ==
  /\ frame.kind = "object"
  /\ frame.type = "message"
  /\ frame.content \notin {"", "(undefined)"}

\* C29: a submit sends exactly one {content: text} frame, text being the
\* trimmed input, and shows it as a user message, if the trimmed input is
\* not empty and the socket is OPEN; otherwise it sends and shows nothing.
\* Nothing else sends.  An incoming frame is shown, as an assistant message,
\* only if it is JSON with type 'message' and a non-empty content; any other
\* frame shows nothing and leaves the socket as it is.
C29_RelayClient ==
  [][/\ onsubmit =>
          IF Trim(inputValue) # "" /\ ws = "OPEN"
          THEN /\ sent' = Append(sent, [content |-> Trim(inputValue)])
               /\ messages' = Append(messages, [content |-> Trim(inputValue),
                                                role |-> "user"])
          ELSE sent' = sent /\ messages' = messages
     /\ sent' # sent =>
          /\ ws = "OPEN" /\ Trim(inputValue) # ""
          /\ sent' = Append(sent, [content |-> Trim(inputValue)])
          /\ Len(messages') = Len(messages) + 1
     /\ (messages' # messages /\ sent' = sent) =>
          \E frame \in Frames :
            /\ Displayable(frame)
            /\ messages' = Append(messages, [content |-> frame.content,
                                             role |-> "assistant"])
     /\ \A frame \in Frames :
          (onmessage(frame) /\ ~Displayable(frame)) =>
            messages' = messages /\ ws' = ws /\ sent' = sent]_vars

\* the user's " hi " was sent trimmed and shown, and an answer was shown
C29_Witness ==
  /\ sent = <<[content |-> "hi"]>>
  /\ messages = <<[content |-> "hi", role |-> "user"],
                  [content |-> "hello", role |-> "assistant"]>>
  /\ ws = "OPEN"

\* the weights of the eight signals, as the doubles of their literals
WeightDoubles == <<W030, W020, W015, W020, W015, W010, W015, W020>>
\* the weights of the first n of the layers, added in order
RECURSIVE SumInOrder(_, _)
SumInOrder(layers, n) ==
  IF n = 0 THEN Zero
  ELSE FloatAdd(SumInOrder(layers, n - 1), WeightDoubles[layers[n]])
\* the first event-handler attribute of the fixed order the element carries
FirstHandler(el) ==
  IF "onclick" \in el.events THEN "onclick"
  ELSE IF "onmousedown" \in el.events THEN "onmousedown"
  ELSE IF "onmouseup" \in el.events THEN "onmouseup"
  ELSE "ontouchstart"
EventReasons(node) ==
  {j \in DOMAIN node.clickability_reasons :
     node.clickability_reasons[j][1] = "event:"}

\* C31: the event-handler signal contributes at most once: an element with
\* any non-empty subset of the four handler attributes has exactly one
\* 'event:<attr>' reason, naming the first attribute present in the fixed
\* order, its score is the sum in which 0.15 occurs once for the handlers,
\* the same as with that first attribute alone; an element without handler
\* attributes has no such reason.
C31_EventSignalOnce ==
  snapshot.done =>
    \A i \in DOMAIN results :
      LET el == document[1]
          fires == InOrder(Fires(el))
      IN  IF el.events = {}
          THEN EventReasons(results[i]) = {}
          ELSE /\ Cardinality(EventReasons(results[i])) = 1
               /\ \A j \in EventReasons(results[i]) :
                    results[i].clickability_reasons[j]
                      = <<"event:", FirstHandler(el)>>
               /\ results[i].clickability_score
                    = FloatMin(SumInOrder(fires, Len(fires)), One)
               /\ results[i].clickability_score
                    = calculateClickability(
                        [el EXCEPT !.events = {FirstHandler(el)}]).score

\* an element with the last two handler attributes was scored: the reason
\* names onmouseup
C31_Witness ==
  /\ snapshot.done
  /\ Len(results) = 1
  /\ document[1].events = {"onmouseup", "ontouchstart"}
  /\ \E j \in DOMAIN results[1].clickability_reasons :
       results[1].clickability_reasons[j] = <<"event:", "onmouseup">>

\* the bounding box strictly overlaps the viewport rectangle
Overlaps(el) ==
  /\ el.y < innerHeight
  /\ el.y + el.height > 0
  /\ el.x < innerWidth
  /\ el.x + el.width > 0
\* the candidates the loop has passed that none of the five conditions hides
Visible == SelectSeq(SubSeq(elements, 1, visited), LAMBDA el : ~Hidden(el))

\* C32: visibility, viewport membership and score are independent: the nodes
\* are the visible candidates, whatever their box and score (a visible
\* candidate outside the viewport is a node with is_in_viewport false), and
\* is_in_viewport of a node is true exactly when top < viewport height,
\* bottom > 0, left < viewport width and right > 0.
C32_ViewportIndependent ==
  /\ Len(results) = Len(Visible)
  /\ \A i \in DOMAIN results :
       i <= Len(Visible) =>
         /\ results[i].css_selector = cssSelector(Visible[i])
         /\ results[i].is_visible
         /\ results[i].is_in_viewport <=> Overlaps(Visible[i])

\* C33: node ids are unique within one detection call, so the nodes map has
\* one entry per visible candidate: size of nodes = length of roots = number
\* of visible candidates.
C33_OneNodePerVisibleCandidate ==
  /\ \A i, j \in DOMAIN results : i # j => results[i].id # results[j].id
  /\ snapshot.done =>
       /\ Cardinality(DOMAIN snapshot.nodes) = Len(snapshot.roots)
       /\ Len(snapshot.roots) = Len(Visible)

\* C34: close operations deregister only after the engine close succeeded:
\* a closeBrowser or closePage that ends with an error response (the fault
\* of browser.close(), page.close() or context.close()) leaves browsers,
\* pages and the counter as they were, its handle included, and makes no
\* further engine call (context.close() is not attempted after page.close()
\* faulted); the error is written under the id of the request.
C34_CloseFaultKeepsHandle ==
  [][\A p \in pending :
       (p.method \in {"closeBrowser", "closePage"} /\ Finished(p)
        /\ IsError(Written)) =>
         /\ Written.id = p.id
         /\ Written.message = EngineFault
         /\ UNCHANGED <<browsers, pages, idCounter, open>>
         /\ engineCalls' = engineCalls
         /\ p.method = "closeBrowser" /\ p.arg \in DOMAIN browsers
              => p.arg \in DOMAIN browsers'
         /\ p.method = "closePage" /\ p.arg \in DOMAIN pages
              => p.arg \in DOMAIN pages']_vars

\* closePage on the page of the session closed the page, context.close()
\* faulted, and the page is still registered
C34_Witness ==
  /\ Len(out) = Len(SessionOut) + 1
  /\ out[Len(out)].message = EngineFault
  /\ SessionPage \notin open
  /\ SessionContext \in open
  /\ Handle("page", 2) \in DOMAIN pages
  /\ pending = {}

\* C35: a failed creation leaves the registry untouched: a launchBrowser,
\* connectBrowser or newPage that ends with an error response registers no
\* handle and leaves both maps and the counter as they were; no number is
\* skipped, the counter is always one more than the number of handles
\* returned.
C35_FailedCreationNoTrace ==
  /\ [](idCounter = Cardinality(Issued) + 1)
  /\ [][\A p \in pending :
          (p.method \in {"launchBrowser", "connectBrowser", "newPage"}
           /\ Finished(p) /\ IsError(Written)) =>
            /\ Written.id = p.id
            /\ UNCHANGED <<browsers, pages, idCounter>>]_vars

\* the context.newPage() of a newPage in the session faulted (its context is
\* left open) and the registry is as the session opened it
C35_Witness ==
  /\ Len(out) = Len(SessionOut) + 1
  /\ out[Len(out)].message = EngineFault
  /\ \E c \in open : c.type = "context" /\ c.by = Len(SessionOut) + 1
  /\ DOMAIN pages = {Handle("page", 2)}
  /\ DOMAIN browsers = {Handle("browser", 1)}
  /\ idCounter = Len(SessionOut) + 1
  /\ pending = {}

\* C36: for every browser the engine's close is invoked at most once over
\* the whole run, across all closeBrowser requests on its handle and
\* shutdown.
C36_CloseInvokedOnce ==
  \A b \in DOMAIN closeCalls : closeCalls[b] <= 1

\* C37: newPage leaks no context on failure: when a newPage call ends with
\* an error response, no context created by that call remains open.
C37_NoContextLeak ==
  [][\A p \in pending :
       (p.method = "newPage" /\ Finished(p) /\ IsError(Written)) =>
         \A c \in open' : c.type = "context" => c.by # p.id]_vars

\* the socket closed in this step
SocketCloses == ws # "CLOSED" /\ ws' = "CLOSED"

\* a socket is created in this step
SocketCreated == ws # "CONNECTING" /\ ws' = "CONNECTING"

\* C39 as stated: reconnectAttempts counts the consecutive closes up to 5,
\* and once 5 consecutive closes happened without an open no connection
\* attempt is made any more.
C39_NoAttemptAfterFiveCloses ==
  [][reconnectAttempts = maxReconnectAttempts => ~SocketCreated]_vars

\* C39 (amended): reconnectAttempts stays within 0..5; a close schedules at
\* most one reconnect, exactly when reconnectAttempts < 5, and disables the
\* input; an open resets the count to 0; a socket is created only by a
\* scheduled reconnect, so that after the close that finds the count at 5
\* (the sixth consecutive one) no connection attempt is ever made; the
\* input stays disabled from a close until the next open.
C39_BoundedReconnect ==
  /\ [](/\ reconnectAttempts \in 0..maxReconnectAttempts
        /\ timers \in 0..1
        /\ timers = 1 => ws = "CLOSED"
        /\ (ws = "CLOSED" \/ (ws = "CONNECTING" /\ reconnectAttempts > 0))
             => inputDisabled)
  /\ [][/\ SocketCloses =>
             /\ inputDisabled'
             /\ IF reconnectAttempts < maxReconnectAttempts
                THEN /\ timers' = timers + 1
                     /\ reconnectAttempts' = reconnectAttempts + 1
                ELSE UNCHANGED <<timers, reconnectAttempts>>
        /\ (ws = "CONNECTING" /\ ws' = "OPEN") => reconnectAttempts' = 0
        /\ SocketCreated => timers' = timers - 1 /\ timers = 1
        /\ (ws = "CLOSED" /\ timers = 0) =>
             /\ reconnectAttempts = maxReconnectAttempts
             /\ ws' = "CLOSED" /\ timers' = 0
        /\ (inputDisabled /\ ~inputDisabled') => ws' = "OPEN" /\ ws # "OPEN"
       ]_vars

\* the sixth consecutive close happened: the count is at the limit and no
\* reconnect is scheduled
C39_Witness ==
  /\ ws = "CLOSED"
  /\ timers = 0
  /\ reconnectAttempts = maxReconnectAttempts
  /\ inputDisabled

\* what the selector list looks at, apart from tabindex and contenteditable
SelectedByTagRoleOrClick(el) ==
  \/ el.tag \in {"a", "button", "input", "select", "textarea", "option"}
  \/ el.role \in {"button", "link", "checkbox", "radio", "menuitem", "tab"}
  \/ "onclick" \in el.events
\* el is a candidate only through a tabindex that is negative or no number
TabindexOnly(el) ==
  /\ ~SelectedByTagRoleOrClick(el)
  /\ el.contenteditable # "true"
  /\ el.tabindex # NullAttr
  /\ ~NotNegative(parseInt(el.tabindex))
\* el is a candidate only through contenteditable="true" and is no HTML
\* element
ForeignEditableOnly(el) ==
  /\ ~SelectedByTagRoleOrClick(el)
  /\ el.tabindex = NullAttr
  /\ el.contenteditable = "true"
  /\ el.namespace # "html"
\* the only trait of el is the tag label or the role option or switch
LabelOrRoleOnly(el) ==
  /\ el.tag = "label" \/ el.role \in {"option", "switch"}
  /\ ~SelectedByTagRoleOrClick(el)
  /\ el.tabindex = NullAttr
  /\ el.contenteditable # "true"
Positive(node) ==
  /\ FloatLess(Zero, node.clickability_score)
  /\ Len(node.clickability_reasons) >= 1
Scoreless(node) ==
  /\ node.clickability_score = Zero
  /\ node.clickability_reasons = <<>>
\* the elements scored by the heuristic are never candidates when their
\* only trait is the tag label or the role option or switch
LabelAndRoleNotSelected ==
  \A i \in DOMAIN document :
    LabelOrRoleOnly(document[i]) =>
      /\ FloatLess(Zero, calculateClickability(document[i]).score)
      /\ \A j \in DOMAIN elements : elements[j] # document[i]

====
